---- MODULE Spec2Model ----
(***************************************************************************)
(* Model of src/server.py: the Resemble AI voice MCP server.  Four tools   *)
(* (generate_voice, list_available_voices, list_projects, create_project)  *)
(* each turn one call into one outbound HTTP request and normalise what    *)
(* comes back into a dict.                                                 *)
(*                                                                         *)
(* Python values are held tagged (t = "null", "bool", "num", "str", "arr", *)
(* "obj") so that a dict may hold values of different types.  A bytes      *)
(* object is held run-length encoded: a sequence of runs [b, n] (byte b    *)
(* repeated n >= 1 times) in which neighbouring runs differ in b, so that  *)
(* two bytes objects are equal exactly when their encodings are.  This is  *)
(* what lets the model hold the 10 MiB streams the size limit is about.    *)
(***************************************************************************)
EXTENDS Integers, Sequences, FiniteSets, TLC

VARIABLES
    pc,               \* "loading", "import_failed", "idle" or "returned"
    env,              \* the value of the RESEMBLE_API_KEY environment variable ("" when unset)
    jsonlib,          \* which exception class response.json() raises in this installation
    RESEMBLE_API_KEY, \* the module global set at import
    call,             \* the tool invocation being answered: [op, args]
    upstream,         \* what the HTTP client did during the invocation
    fault,            \* a local fault hit while encoding the audio, or NoFault
    sent,             \* the HTTP requests issued during the invocation
    consumed,         \* the number of chunks pulled from the response stream
    outcome           \* how the invocation ended: [kind |-> "return", value] or [kind |-> "raise", exc]

vars == <<pc, env, jsonlib, RESEMBLE_API_KEY, call, upstream, fault, sent, consumed, outcome>>

-----------------------------------------------------------------------------
(* Bounds of the model. *)

\* The longest explicitly enumerated audio body, in bytes.
MaxBodyLen == 3
\* The most chunks a response stream is cut into.
MaxChunks == 3

-----------------------------------------------------------------------------
(* Python values. *)

Null == [t |-> "null"]
Bool(b) == [t |-> "bool", b |-> b]
Num(n) == [t |-> "num", n |-> n]
Str(s) == [t |-> "str", s |-> s]
\* A str holding base64 text, kept as runs of 4-character groups.
Str64(r) == [t |-> "str", b64 |-> r]
Arr(a) == [t |-> "arr", a |-> a]
Obj(o) == [t |-> "obj", o |-> o]
EmptyObj == Obj(<<>>)

IsObj(v) == v.t = "obj"
HasKey(v, k) == IsObj(v) /\ k \in DOMAIN v.o

\* Python truthiness of a value (`if x`, `x or y`).
Truthy(v) ==
    CASE v.t = "null" -> FALSE
      [] v.t = "bool" -> v.b
      [] v.t = "num" -> v.n # 0
      [] v.t = "str" -> IF "s" \in DOMAIN v THEN v.s # "" ELSE v.b64 # <<>>
      [] v.t = "arr" -> v.a # <<>>
      [] v.t = "obj" -> DOMAIN v.o # {}

\* dict.get(k, default) on a dict.
Get(d, k, default) == IF k \in DOMAIN d.o THEN d.o[k] ELSE default

-----------------------------------------------------------------------------
(* bytes objects, run-length encoded. *)

Run(b, n) == [b |-> b, n |-> n]

RECURSIVE BLen(_)
\* len(x)
BLen(x) == IF x = <<>> THEN 0 ELSE x[1].n + BLen(Tail(x))

\* x + y
BCat(x, y) ==
    IF x = <<>> THEN y
    ELSE IF y = <<>> THEN x
    ELSE IF x[Len(x)].b = y[1].b
         THEN SubSeq(x, 1, Len(x) - 1)
              \o <<Run(y[1].b, x[Len(x)].n + y[1].n)>>
              \o Tail(y)
         ELSE x \o y

RECURSIVE BTake(_, _)
\* x[:k]
BTake(x, k) ==
    IF k <= 0 \/ x = <<>> THEN <<>>
    ELSE IF x[1].n <= k THEN <<x[1]>> \o BTake(Tail(x), k - x[1].n)
    ELSE <<Run(x[1].b, k)>>

RECURSIVE BDrop(_, _)
\* x[k:]
BDrop(x, k) ==
    IF k <= 0 \/ x = <<>> THEN x
    ELSE IF x[1].n <= k THEN BDrop(Tail(x), k - x[1].n)
    ELSE <<Run(x[1].b, x[1].n - k)>> \o Tail(x)

RECURSIVE BytesOf(_)
\* The bytes object holding the bytes of the sequence s.
BytesOf(s) == IF s = <<>> THEN <<>> ELSE BCat(<<Run(s[1], 1)>>, BytesOf(Tail(s)))

RECURSIVE BList(_)
\* list(x) of a short bytes object
BList(x) ==
    IF x = <<>> THEN <<>>
    ELSE IF x[1].n = 1 THEN <<x[1].b>> \o BList(Tail(x))
    ELSE <<x[1].b>> \o BList(<<Run(x[1].b, x[1].n - 1)>> \o Tail(x))

-----------------------------------------------------------------------------
(* base64.b64encode: RFC 4648 standard alphabet with "=" padding.  The     *)
(* text is a sequence of runs [q, n]: the 4-character group q repeated n   *)
(* times, neighbouring runs differing in q.                                *)

B64Alphabet ==
    << "A","B","C","D","E","F","G","H","I","J","K","L","M","N","O","P",
       "Q","R","S","T","U","V","W","X","Y","Z","a","b","c","d","e","f",
       "g","h","i","j","k","l","m","n","o","p","q","r","s","t","u","v",
       "w","x","y","z","0","1","2","3","4","5","6","7","8","9","+","/" >>

\* The group encoding the 1, 2 or 3 bytes of h.
B64Group(h) ==
    LET b1 == h[1]
        b2 == IF Len(h) >= 2 THEN h[2] ELSE 0
        b3 == IF Len(h) >= 3 THEN h[3] ELSE 0
        w  == b1 * 65536 + b2 * 256 + b3
        c1 == B64Alphabet[(w \div 262144) + 1]
        c2 == B64Alphabet[((w \div 4096) % 64) + 1]
        c3 == B64Alphabet[((w \div 64) % 64) + 1]
        c4 == B64Alphabet[(w % 64) + 1]
    IN  CASE Len(h) = 1 -> <<c1, c2, "=", "=">>
          [] Len(h) = 2 -> <<c1, c2, c3, "=">>
          [] OTHER      -> <<c1, c2, c3, c4>>

QRun(q, n) == [q |-> q, n |-> n]

\* Concatenation of two base64 texts.
QCat(x, y) ==
    IF x = <<>> THEN y
    ELSE IF y = <<>> THEN x
    ELSE IF x[Len(x)].q = y[1].q
         THEN SubSeq(x, 1, Len(x) - 1)
              \o <<QRun(y[1].q, x[Len(x)].n + y[1].n)>>
              \o Tail(y)
         ELSE x \o y

RECURSIVE B64Encode(_)
\* base64.b64encode(x).decode('utf-8'): three bytes at a time; a run of 3k
\* equal bytes gives k equal groups.
B64Encode(x) ==
    IF x = <<>> THEN <<>>
    ELSE IF x[1].n >= 3
         THEN LET k == x[1].n \div 3
              IN  QCat(<<QRun(B64Group(<<x[1].b, x[1].b, x[1].b>>), k)>>,
                       B64Encode(BDrop(x, 3 * k)))
         ELSE QCat(<<QRun(B64Group(BList(BTake(x, 3))), 1)>>,
                   B64Encode(BDrop(x, 3)))

-----------------------------------------------------------------------------
(* Exceptions: [cls, msg], with str(e) = e.msg.  Every class named here is *)
(* a subclass of Exception.                                                *)

Exc(cls, msg) == [cls |-> cls, msg |-> msg]

\* The installations of the JSON stack: requests >= 2.27 raises its own
\* JSONDecodeError (a RequestException and a json.JSONDecodeError); older
\* releases raise json.JSONDecodeError, or simplejson's when it is installed.
JsonLibs == {"requests", "json", "simplejson"}
JSONErrorClass(lib) ==
    CASE lib = "requests"   -> "requests.JSONDecodeError"
      [] lib = "json"       -> "json.JSONDecodeError"
      [] lib = "simplejson" -> "simplejson.JSONDecodeError"

\* isinstance(e, requests.RequestException)
IsRequestException(e) ==
    e.cls \in {"ConnectionError", "Timeout", "HTTPError", "ChunkedEncodingError",
               "requests.JSONDecodeError"}
\* isinstance(e, json.JSONDecodeError)
IsJSONDecodeError(e) == e.cls \in {"requests.JSONDecodeError", "json.JSONDecodeError"}

\* How a piece of code ends: by returning a value or by raising.
Return(v) == [kind |-> "return", value |-> v]
Raise(e) == [kind |-> "raise", exc |-> e]

\* The failures of the transport: no response is received.
TransportErrors ==
    { Exc("ConnectionError", "Failed to establish a new connection"),
      Exc("Timeout", "Read timed out.") }
\* A failure of the HTTP client that is no RequestException.
ClientErrors == { Exc("UnicodeEncodeError", "'latin-1' codec can't encode character") }
\* The failures of reading a streamed body.
StreamErrors ==
    { Exc("ChunkedEncodingError", "Connection broken: IncompleteRead"),
      Exc("OSError", "read failed") }
NoError == Exc("", "")
\* A local fault while the audio is joined and encoded.
NoFault == Exc("", "")
Faults == { NoFault, Exc("MemoryError", "") }

-----------------------------------------------------------------------------
(* The upstream API as the HTTP client shows it. *)

Statuses == {200, 201, 204, 401, 404, 500}

BodyTexts ==
    { "",
      "<html>502 Bad Gateway</html>",
      "null",
      "[]",
      "{}",
      "{\"success\":true,\"page\":2,\"num_pages\":5,\"page_size\":10,\"items\":[{\"uuid\":\"p1\"}]}",
      "{\"success\":true,\"page\":1,\"num_pages\":1,\"page_size\":10,\"total\":0}",
      "{\"success\":1,\"items\":[]}",
      "{\"success\":false,\"message\":\"Invalid\"}",
      "{\"item\":{\"uuid\":\"x\"}}",
      "{\"success\":true,\"item\":null}" }

NotJSON == [t |-> "invalid"]

\* json.loads of the body texts the model uses.
ParseJSON(text) ==
    CASE text = "null" -> Null
      [] text = "[]" -> Arr(<<>>)
      [] text = "{}" -> EmptyObj
      [] text = "{\"success\":true,\"page\":2,\"num_pages\":5,\"page_size\":10,\"items\":[{\"uuid\":\"p1\"}]}" ->
            Obj([success |-> Bool(TRUE), page |-> Num(2), num_pages |-> Num(5),
                 page_size |-> Num(10), items |-> Arr(<<Obj([uuid |-> Str("p1")])>>)])
      [] text = "{\"success\":true,\"page\":1,\"num_pages\":1,\"page_size\":10,\"total\":0}" ->
            Obj([success |-> Bool(TRUE), page |-> Num(1), num_pages |-> Num(1),
                 page_size |-> Num(10), total |-> Num(0)])
      [] text = "{\"success\":1,\"items\":[]}" ->
            Obj([success |-> Num(1), items |-> Arr(<<>>)])
      [] text = "{\"success\":false,\"message\":\"Invalid\"}" ->
            Obj([success |-> Bool(FALSE), message |-> Str("Invalid")])
      [] text = "{\"item\":{\"uuid\":\"x\"}}" ->
            Obj([item |-> Obj([uuid |-> Str("x")])])
      [] text = "{\"success\":true,\"item\":null}" ->
            Obj([success |-> Bool(TRUE), item |-> Null])
      [] OTHER -> NotJSON

\* response.json()
ResponseJson(text, lib) ==
    IF ParseJSON(text) = NotJSON
    THEN Raise(Exc(JSONErrorClass(lib), "Expecting value: line 1 column 1 (char 0)"))
    ELSE Return(ParseJSON(text))

\* type(v).__name__
TypeName(v) ==
    CASE v.t = "null" -> "NoneType"
      [] v.t = "bool" -> "bool"
      [] v.t = "num" -> "int"
      [] v.t = "str" -> "str"
      [] v.t = "arr" -> "list"
      [] v.t = "obj" -> "dict"

\* The AttributeError of data.get on a value that is no dict.
NoGet(v) == Exc("AttributeError", "'" \o TypeName(v) \o "' object has no attribute 'get'")

\* What a buffered request (requests.get, requests.post) can come to.
BufferedUpstreams ==
    { [kind |-> "raise", exc |-> e] : e \in TransportErrors \cup ClientErrors }
    \cup { [kind |-> "response", status |-> s, text |-> t] : s \in Statuses, t \in BodyTexts }

NoUpstream == [kind |-> "none"]

-----------------------------------------------------------------------------
(* The result dicts. *)

\* {"success": False, "error": msg}
ErrorResult(msg) == Obj([success |-> Bool(FALSE), error |-> Str(msg)])

\* {"success": False, "error": f"API returned status code {status}", "response": response.text}
StatusErrorResult(status, text) ==
    Obj([success |-> Bool(FALSE),
         error |-> Str("API returned status code " \o ToString(status)),
         response |-> Str(text)])

AuthFailedMessage == "Authentication failed. Please check your API key."

-----------------------------------------------------------------------------
(* generate_voice *)

StreamUrl == "https://f.cluster.resemble.ai/stream"
ChunkSize == 8192
DefaultSampleRate == 22050
\* The size limit of the audio, in bytes.
MaxAudioBytes == 10 * 1024 * 1024

\* ResolveToken with the operands swapped: RESEMBLE_API_KEY or api_token.
ResolveTokenDefaultFirst(api_token, key) ==
    IF key # "" THEN key ELSE IF Truthy(api_token) THEN api_token.s ELSE ""

\* token = api_token or RESEMBLE_API_KEY
ResolveToken(api_token, key) == IF Truthy(api_token) THEN api_token.s ELSE key

\* The streamed POST of generate_voice.
StreamRequest(args, token) ==
    [method |-> "POST", url |-> StreamUrl,
     headers |-> [Authorization |-> "Bearer " \o token,
                  ContentType |-> "application/json"],
     json |-> [project_uuid |-> args.project_uuid, voice_uuid |-> args.voice_uuid,
               data |-> args.text, precision |-> args.precision,
               sample_rate |-> args.sample_rate],
     stream |-> TRUE]

RECURSIVE Slices(_, _)
\* The chunks response.iter_content yields for a body cut at the lengths cuts.
Slices(body, cuts) ==
    IF cuts = <<>> THEN <<>>
    ELSE <<BTake(body, cuts[1])>> \o Slices(BDrop(body, cuts[1]), Tail(cuts))

\* OverLimit testing the chunk's own size instead of the running total.
OverLimitPerChunk(total_size, chunk) == BLen(chunk) > MaxAudioBytes

\* if total_size > 10 * 1024 * 1024
OverLimit(total_size, chunk) == total_size > MaxAudioBytes

RECURSIVE ReadChunks(_, _, _, _)
\* The loop over response.iter_content: from chunk i on, with the chunks kept
\* and their total size so far.  Ends at the first chunk that takes the total
\* over the limit, or with the iterator.
ReadChunks(in, i, chunks, total_size) ==
    IF i > Len(in)
    THEN [overflow |-> FALSE, chunks |-> chunks, total_size |-> total_size,
          consumed |-> Len(in)]
    ELSE IF in[i] # <<>>
         THEN LET kept == Append(chunks, in[i])
                  total == total_size + BLen(in[i])
              IN  IF OverLimit(total, in[i])
                  THEN [overflow |-> TRUE, chunks |-> kept, total_size |-> total,
                        consumed |-> i]
                  ELSE ReadChunks(in, i + 1, kept, total)
         ELSE ReadChunks(in, i + 1, chunks, total_size)

RECURSIVE JoinReversed(_)
\* Join with each chunk put in front of the ones before it.
JoinReversed(chunks) ==
    IF chunks = <<>> THEN <<>> ELSE BCat(JoinReversed(Tail(chunks)), chunks[1])

RECURSIVE Join(_)
\* b''.join(chunks)
Join(chunks) == IF chunks = <<>> THEN <<>> ELSE BCat(chunks[1], Join(Tail(chunks)))

\* {"success": True, "audio_data_base64": ..., ...}
AudioResult(audio_bytes, sample_rate, precision) ==
    Obj([success |-> Bool(TRUE),
         audio_data_base64 |-> Str64(B64Encode(audio_bytes)),
         content_type |-> Str("audio/wav"),
         sample_rate |-> Num(sample_rate),
         precision |-> Str(precision),
         size_bytes |-> Num(BLen(audio_bytes))])

\* The inner try of generate_voice: join, encode, and its except Exception.
EncodeAudio(chunks, args, flt) ==
    IF flt # NoFault
    THEN Return(ErrorResult("Failed to process audio data: " \o flt.msg))
    ELSE Return(AudioResult(Join(chunks), args.sample_rate, args.precision))

\* The body of the outer try of generate_voice, after the request is built:
\* [out, consumed].
GenerateVoiceTry(args, up, flt) ==
    IF up.kind = "raise" THEN [out |-> Raise(up.exc), consumed |-> 0]
    ELSE IF up.status # 200
    THEN [out |-> Return(ErrorResult("API request failed with status code: "
                                     \o ToString(up.status))),
          consumed |-> 0]
    ELSE LET read == ReadChunks(Slices(up.stream.body, up.stream.cuts), 1, <<>>, 0)
         IN  IF read.overflow
             THEN [out |-> Return(ErrorResult("Audio response too large (>10MB)")),
                   consumed |-> read.consumed]
             ELSE IF up.stream.err # NoError
             THEN [out |-> Raise(up.stream.err), consumed |-> read.consumed]
             ELSE [out |-> EncodeAudio(read.chunks, args, flt),
                   consumed |-> read.consumed]

\* GenerateVoiceExcept without its last clause, except Exception.
GenerateVoiceExceptRequestsOnly(out) ==
    IF out.kind # "raise" THEN out
    ELSE IF IsRequestException(out.exc)
    THEN Return(ErrorResult("API request failed: " \o out.exc.msg))
    ELSE out

\* GenerateVoiceExcept with except Exception put first.
GenerateVoiceExceptCatchAllFirst(out) ==
    IF out.kind # "raise" THEN out
    ELSE Return(ErrorResult("Unexpected error: " \o out.exc.msg))

\* The except clauses of generate_voice, in their order.
GenerateVoiceExcept(out) ==
    IF out.kind # "raise" THEN out
    ELSE IF IsRequestException(out.exc)
    THEN Return(ErrorResult("API request failed: " \o out.exc.msg))
    ELSE Return(ErrorResult("Unexpected error: " \o out.exc.msg))

-----------------------------------------------------------------------------
(* list_available_voices *)

VoicesUrl == "https://app.resemble.ai/api/v2/voices"
ProjectsUrl == "https://app.resemble.ai/api/v2/projects"

VoicesRequest(args, key) ==
    [method |-> "GET", url |-> VoicesUrl,
     headers |-> [Authorization |-> "Bearer " \o key,
                  ContentType |-> "application/json"],
     params |-> [page |-> args.page, page_size |-> args.page_size]]

\* response.raise_for_status(): an HTTPError for a 4xx or 5xx status.
RaiseForStatus(status, url) ==
    IF 400 <= status /\ status < 500
    THEN Raise(Exc("HTTPError", ToString(status) \o " Client Error for url: " \o url))
    ELSE IF 500 <= status /\ status < 600
    THEN Raise(Exc("HTTPError", ToString(status) \o " Server Error for url: " \o url))
    ELSE Return(Null)

\* The body of the try of list_available_voices.
ListVoicesTry(up, lib) ==
    IF up.kind = "raise" THEN Raise(up.exc)
    ELSE IF RaiseForStatus(up.status, VoicesUrl).kind = "raise"
    THEN RaiseForStatus(up.status, VoicesUrl)
    ELSE ResponseJson(up.text, lib)

\* The except clauses of list_available_voices, in their order.
ListVoicesExcept(out) ==
    IF out.kind # "raise" THEN out
    ELSE IF IsRequestException(out.exc)
    THEN Return(ErrorResult("API request failed: " \o out.exc.msg))
    ELSE IF IsJSONDecodeError(out.exc)
    THEN Return(ErrorResult("Failed to parse API response"))
    ELSE Return(ErrorResult("Unexpected error: " \o out.exc.msg))

-----------------------------------------------------------------------------
(* list_projects *)

ProjectsListRequest(args, key) ==
    [method |-> "GET", url |-> ProjectsUrl,
     headers |-> [Authorization |-> "Bearer " \o key,
                  Accept |-> "application/json"],
     params |-> [page |-> args.page, page_size |-> args.page_size]]

\* ProjectsPage handing the body on as list_available_voices does.
ProjectsPageVerbatim(data) == data

\* ProjectsPage reading the projects from the key it writes them to.
ProjectsPageFromProjects(data) ==
    Obj([success |-> Bool(TRUE),
         page |-> Get(data, "page", Null),
         num_pages |-> Get(data, "num_pages", Null),
         page_size |-> Get(data, "page_size", Null),
         projects |-> Get(data, "projects", Arr(<<>>))])

\* The reshaped page of a logical success.
ProjectsPage(data) ==
    Obj([success |-> Bool(TRUE),
         page |-> Get(data, "page", Null),
         num_pages |-> Get(data, "num_pages", Null),
         page_size |-> Get(data, "page_size", Null),
         projects |-> Get(data, "items", Arr(<<>>))])

\* The status 200 branch of list_projects.
ListProjectsOk(text, lib) ==
    LET parsed == ResponseJson(text, lib)
    IN  IF parsed.kind = "raise" THEN parsed
        ELSE IF ~IsObj(parsed.value) THEN Raise(NoGet(parsed.value))
        ELSE IF Truthy(Get(parsed.value, "success", Null))
        THEN Return(ProjectsPage(parsed.value))
        ELSE Return(ErrorResult("API request successful but returned no data"))

\* ListProjectsTry without the branch for 401.
ListProjectsTryNo401(up, lib) ==
    IF up.kind = "raise" THEN Raise(up.exc)
    ELSE IF up.status = 200 THEN ListProjectsOk(up.text, lib)
    ELSE Return(StatusErrorResult(up.status, up.text))

\* The body of the try of list_projects.
ListProjectsTry(up, lib) ==
    IF up.kind = "raise" THEN Raise(up.exc)
    ELSE IF up.status = 200 THEN ListProjectsOk(up.text, lib)
    ELSE IF up.status = 401 THEN Return(ErrorResult(AuthFailedMessage))
    ELSE Return(StatusErrorResult(up.status, up.text))

\* except Exception as e
ListProjectsExcept(out) ==
    IF out.kind # "raise" THEN out
    ELSE Return(ErrorResult("Request failed: " \o out.exc.msg))

-----------------------------------------------------------------------------
(* create_project *)

CreateProjectRequest(args, key) ==
    [method |-> "POST", url |-> ProjectsUrl,
     headers |-> [Authorization |-> "Bearer " \o key,
                  ContentType |-> "application/json",
                  Accept |-> "application/json"],
     json |-> [name |-> args.name, description |-> "Created via API"]]

\* IsCreated taking 200 alone for success.
IsCreatedOnly200(status) == status = 200

\* response.status_code in (200, 201)
IsCreated(status) == status \in {200, 201}

\* The success branch of create_project.
CreateProjectOk(text, lib) ==
    LET parsed == ResponseJson(text, lib)
    IN  IF parsed.kind = "raise" THEN parsed
        ELSE IF ~IsObj(parsed.value) THEN Raise(NoGet(parsed.value))
        ELSE Return(Obj([success |-> Bool(TRUE),
                         project |-> Get(parsed.value, "item", EmptyObj)]))

\* The body of the try of create_project.
CreateProjectTry(up, lib) ==
    IF up.kind = "raise" THEN Raise(up.exc)
    ELSE IF IsCreated(up.status) THEN CreateProjectOk(up.text, lib)
    ELSE Return(StatusErrorResult(up.status, up.text))

\* except Exception as e
CreateProjectExcept(out) ==
    IF out.kind # "raise" THEN out
    ELSE Return(ErrorResult("Request failed: " \o out.exc.msg))

-----------------------------------------------------------------------------
(* The inputs the model draws from. *)

NoCall == [op |-> "none"]
NoOutcome == [kind |-> "none"]

VoiceArgs ==
    [text : {"Hello"}, voice_uuid : {"v-1"}, project_uuid : {"p-1"},
     api_token : {Null, Str(""), Str("override-token")},
     sample_rate : {DefaultSampleRate, 44100}, precision : {"PCM_16"}]
PageArgs == [page : {1, 2}, page_size : {10}]
CreateArgs == [name : {"demo", ""}]

\* The byte values the enumerated bodies are made of.
ByteSamples == {0, 77, 255}

\* The audio bodies: every body of at most MaxBodyLen sample bytes, and bodies
\* around the size limit.
SmallBodies == UNION { { BytesOf(s) : s \in [1..n -> ByteSamples] } : n \in 0..MaxBodyLen }
LargeBodies ==
    { <<Run(77, MaxAudioBytes - 1)>>,
      <<Run(0, MaxAudioBytes)>>,
      <<Run(255, MaxAudioBytes + 1)>>,
      <<Run(1, MaxAudioBytes \div 2), Run(2, MaxAudioBytes \div 2 + ChunkSize)>> }

\* The lengths the next chunk may have when rem bytes of the body are left.
ChunkLens(rem) ==
    IF rem <= MaxBodyLen THEN 0..rem
    ELSE { c \in {0, 1, ChunkSize, MaxAudioBytes \div 2, MaxAudioBytes, rem} : c <= rem }

RECURSIVE CutsOf(_, _)
\* The ways to deliver at most rem bytes in at most k chunks.
CutsOf(rem, k) ==
    {<<>>} \cup
    ( IF k = 0 THEN {}
      ELSE UNION { { <<c>> \o rest : rest \in CutsOf(rem - c, k - 1) } : c \in ChunkLens(rem) } )

RECURSIVE Sum(_)
Sum(cuts) == IF cuts = <<>> THEN 0 ELSE cuts[1] + Sum(Tail(cuts))

\* A streamed body: the body, the lengths of the chunks it is delivered in,
\* and the error the iterator raises after them (NoError: the body is
\* delivered whole and the iterator ends).
StreamsOf(body) ==
    { [body |-> body, cuts |-> cuts, err |-> NoError] :
        cuts \in { c \in CutsOf(BLen(body), MaxChunks) : Sum(c) = BLen(body) } }
    \cup { [body |-> body, cuts |-> cuts, err |-> e] :
             cuts \in CutsOf(BLen(body), MaxChunks - 1), e \in StreamErrors }
Streams == UNION { StreamsOf(body) : body \in SmallBodies \cup LargeBodies }
NoStream == [body |-> <<>>, cuts |-> <<>>, err |-> NoError]

\* What the streamed POST can come to.
StreamUpstreams ==
    { [kind |-> "raise", exc |-> e] : e \in TransportErrors \cup ClientErrors }
    \cup { [kind |-> "response", status |-> s, stream |-> NoStream] : s \in Statuses \ {200} }
    \cup { [kind |-> "response", status |-> 200, stream |-> st] : st \in Streams }

-----------------------------------------------------------------------------
(* The four tools, each from its call to its return: [out, sent, consumed]. *)

generate_voice(args, key, up, flt) ==
    LET token == ResolveToken(args.api_token, key)
    IN  IF token = ""
        THEN [out |-> Return(ErrorResult("No API token provided")),
              sent |-> <<>>, consumed |-> 0]
        ELSE LET try == GenerateVoiceTry(args, up, flt)
             IN  [out |-> GenerateVoiceExcept(try.out),
                  sent |-> <<StreamRequest(args, token)>>,
                  consumed |-> try.consumed]

list_available_voices(args, key, up, lib) ==
    [out |-> ListVoicesExcept(ListVoicesTry(up, lib)),
     sent |-> <<VoicesRequest(args, key)>>, consumed |-> 0]

list_projects(args, key, up, lib) ==
    [out |-> ListProjectsExcept(ListProjectsTry(up, lib)),
     sent |-> <<ProjectsListRequest(args, key)>>, consumed |-> 0]

create_project(args, key, up, lib) ==
    [out |-> CreateProjectExcept(CreateProjectTry(up, lib)),
     sent |-> <<CreateProjectRequest(args, key)>>, consumed |-> 0]

-----------------------------------------------------------------------------
(* The state machine. *)

Init ==
    /\ pc = "loading"
    /\ env \in {"", "env-key"}
    /\ jsonlib \in JsonLibs
    /\ RESEMBLE_API_KEY = ""
    /\ call = NoCall
    /\ upstream = NoUpstream
    /\ fault = NoFault
    /\ sent = <<>>
    /\ consumed = 0
    /\ outcome = NoOutcome

\* The module's import: the key is read from the environment, and the import
\* raises ValueError when it is missing.
ModuleImport ==
    /\ pc = "loading"
    /\ RESEMBLE_API_KEY' = env
    /\ pc' = IF env = "" THEN "import_failed" ELSE "idle"
    /\ UNCHANGED <<env, jsonlib, call, upstream, fault, sent, consumed, outcome>>

\* The state after a tool ran.
Ran(op, args, up, flt, run) ==
    /\ pc' = "returned"
    /\ call' = [op |-> op, args |-> args]
    /\ upstream' = up
    /\ fault' = flt
    /\ sent' = run.sent
    /\ consumed' = run.consumed
    /\ outcome' = run.out
    /\ UNCHANGED <<env, jsonlib, RESEMBLE_API_KEY>>

\* Whether a call of generate_voice gets as far as encoding the audio.
Encodes(args, key, up) ==
    /\ ResolveToken(args.api_token, key) # ""
    /\ up.kind = "response"
    /\ up.status = 200
    /\ up.stream.err = NoError
    /\ ~ReadChunks(Slices(up.stream.body, up.stream.cuts), 1, <<>>, 0).overflow

GenerateVoiceCall ==
    /\ pc = "idle"
    /\ \E args \in VoiceArgs :
       \E up \in ( IF ResolveToken(args.api_token, RESEMBLE_API_KEY) = ""
                   THEN {NoUpstream} ELSE StreamUpstreams ) :
       \E flt \in ( IF Encodes(args, RESEMBLE_API_KEY, up) THEN Faults ELSE {NoFault} ) :
          Ran("generate_voice", args, up, flt,
              generate_voice(args, RESEMBLE_API_KEY, up, flt))

ListVoicesCall ==
    /\ pc = "idle"
    /\ \E args \in PageArgs, up \in BufferedUpstreams :
          Ran("list_available_voices", args, up, NoFault,
              list_available_voices(args, RESEMBLE_API_KEY, up, jsonlib))

ListProjectsCall ==
    /\ pc = "idle"
    /\ \E args \in PageArgs, up \in BufferedUpstreams :
          Ran("list_projects", args, up, NoFault,
              list_projects(args, RESEMBLE_API_KEY, up, jsonlib))

CreateProjectCall ==
    /\ pc = "idle"
    /\ \E args \in CreateArgs, up \in BufferedUpstreams :
          Ran("create_project", args, up, NoFault,
              create_project(args, RESEMBLE_API_KEY, up, jsonlib))

\* The tool framework hands the result to the caller and waits for the next call.
Respond ==
    /\ pc = "returned"
    /\ pc' = "idle"
    /\ call' = NoCall
    /\ upstream' = NoUpstream
    /\ fault' = NoFault
    /\ sent' = <<>>
    /\ consumed' = 0
    /\ outcome' = NoOutcome
    /\ UNCHANGED <<env, jsonlib, RESEMBLE_API_KEY>>

Next ==
    \/ ModuleImport
    \/ GenerateVoiceCall
    \/ ListVoicesCall
    \/ ListProjectsCall
    \/ CreateProjectCall
    \/ Respond

Spec == Init /\ [][Next]_vars

-----------------------------------------------------------------------------
(* What the properties below speak of. *)

Returned == pc = "returned"
Answered(op) == Returned /\ call.op = op
Responded == Returned /\ upstream.kind = "response"
Result == outcome.value

\* v is a dict with a boolean "success".
HasBoolSuccess(v) == HasKey(v, "success") /\ v.o.success.t = "bool"
\* v is a dict {success: false, error: <a string>, ...}.
IsErrorDict(v) ==
    /\ HasKey(v, "success") /\ v.o.success = Bool(FALSE)
    /\ HasKey(v, "error") /\ v.o.error.t = "str"

\* Of the messages the program writes, the one that names authentication.
MentionsAuthentication(msg) == msg = "Authentication failed. Please check your API key."

\* The index (in the alphabet, from 0) of a base64 character; 0 for padding.
B64Index(c) == IF c = "=" THEN 0 ELSE (CHOOSE i \in 1..64 : B64Alphabet[i] = c) - 1

\* The bytes a 4-character group stands for.
B64GroupBytes(q) ==
    LET w == B64Index(q[1]) * 262144 + B64Index(q[2]) * 4096
             + B64Index(q[3]) * 64 + B64Index(q[4])
        b == <<w \div 65536, (w \div 256) % 256, w % 256>>
    IN  IF q[3] = "=" THEN SubSeq(b, 1, 1)
        ELSE IF q[4] = "=" THEN SubSeq(b, 1, 2)
        ELSE b

RECURSIVE BRepeat(_, _)
\* x * n
BRepeat(x, n) ==
    IF n = 0 \/ x = <<>> THEN <<>>
    ELSE IF Len(x) = 1 THEN <<Run(x[1].b, x[1].n * n)>>
    ELSE BCat(x, BRepeat(x, n - 1))

RECURSIVE B64Decode(_)
\* base64.b64decode of a base64 text.
B64Decode(t) ==
    IF t = <<>> THEN <<>>
    ELSE BCat(BRepeat(BytesOf(B64GroupBytes(t[1].q)), t[1].n), B64Decode(Tail(t)))

RECURSIVE FirstOver(_, _, _)
\* The index of the first chunk with which the cumulative length of the
\* chunks cuts[i..] added to total exceeds 10,485,760; 0 when none does.
FirstOver(cuts, i, total) ==
    IF i > Len(cuts) THEN 0
    ELSE IF total + cuts[i] > 10485760 THEN i
    ELSE FirstOver(cuts, i + 1, total + cuts[i])

-----------------------------------------------------------------------------
(* C1 *)

\* C1, as stated: whatever the upstream does, each of the four operations
\* returns an object that contains a boolean `success` field.
C1_SuccessAlways ==
    Returned => outcome.kind = "return" /\ HasBoolSuccess(Result)

\* C1, amended: generate_voice, list_projects and create_project return an
\* object with a boolean `success` field for every upstream outcome;
\* list_available_voices does so on each of its failure paths, and otherwise
\* (a status below 400 with a JSON body) returns the parsed body as it is.
C1_SuccessUnlessVerbatim ==
    Returned =>
        /\ outcome.kind = "return"
        /\ call.op # "list_available_voices" => HasBoolSuccess(Result)
        /\ call.op = "list_available_voices" =>
              \/ IsErrorDict(Result)
              \/ /\ upstream.kind = "response"
                 /\ upstream.status < 400
                 /\ ParseJSON(upstream.text) # NotJSON
                 /\ Result = ParseJSON(upstream.text)

\* list_available_voices handed on an upstream body that has no boolean `success`.
C1_Witness ==
    /\ Answered("list_available_voices")
    /\ upstream.kind = "response" /\ upstream.status = 200
    /\ outcome.kind = "return"
    /\ ~HasBoolSuccess(Result)

-----------------------------------------------------------------------------
(* C2 *)

\* Something failed during the call.
CallFailed ==
    \/ upstream.kind = "raise"
    \/ fault # NoFault
    \/ /\ upstream.kind = "response"
       /\ \/ upstream.status >= 400
          \/ call.op = "generate_voice" /\ upstream.stream.err # NoError
          \/ call.op # "generate_voice" /\ ParseJSON(upstream.text) = NotJSON

\* C2: no invocation of any of the four operations ends by raising; whatever
\* fails during the call (transport error, bad status, unparsable body, error
\* while reading a chunk, encoding error), the invocation returns a
\* {success: false, error: ...} result.
C2_NothingEscapes ==
    Returned =>
        /\ outcome.kind = "return"
        /\ CallFailed => IsErrorDict(Result)

\* generate_voice returned after the stream broke behind its first chunks.
C2_Witness ==
    /\ Answered("generate_voice")
    /\ upstream.kind = "response" /\ upstream.status = 200
    /\ upstream.stream.err # NoError
    /\ ~IsRequestException(upstream.stream.err)
    /\ consumed > 0
    /\ outcome.kind = "return"

-----------------------------------------------------------------------------
(* C3 *)

\* C3, as stated: a 401 answer to list_projects or create_project gives
\* success=false with an error that mentions authentication and is not the
\* generic "API returned status code 401".
C3_AuthMessageBoth ==
    ( /\ Responded
      /\ call.op \in {"list_projects", "create_project"}
      /\ upstream.status = 401 ) =>
        /\ IsErrorDict(Result)
        /\ MentionsAuthentication(Result.o.error.s)
        /\ Result.o.error.s # "API returned status code 401"

\* C3, amended: a 401 answer to list_projects gives {success: false, error:
\* "Authentication failed. Please check your API key."}; a 401 answer to
\* create_project gives the generic {success: false, error: "API returned
\* status code 401", response: <raw body text>}.
C3_AuthMessageListOnly ==
    ( Responded /\ upstream.status = 401 ) =>
        /\ call.op = "list_projects" =>
              /\ Result = Obj([success |-> Bool(FALSE),
                               error |-> Str("Authentication failed. Please check your API key.")])
              /\ MentionsAuthentication(Result.o.error.s)
        /\ call.op = "create_project" =>
              Result = Obj([success |-> Bool(FALSE),
                            error |-> Str("API returned status code 401"),
                            response |-> Str(upstream.text)])

\* list_projects answered a 401.
C3_Witness ==
    /\ Answered("list_projects")
    /\ upstream.kind = "response" /\ upstream.status = 401
    /\ outcome.kind = "return"
    /\ MentionsAuthentication(Result.o.error.s)

-----------------------------------------------------------------------------
(* C4 *)

\* C4: in generate_voice, for a 200 streamed response, as soon as the
\* cumulative byte count of the chunks received exceeds 10,485,760 the call
\* returns exactly {success: false, error: "Audio response too large (>10MB)"}
\* (no audio_data_base64, none of the bytes), having pulled no chunk behind
\* the one that crossed the limit; success=true is never returned for such a
\* stream.
C4_TooLarge ==
    ( /\ Answered("generate_voice")
      /\ upstream.kind = "response" /\ upstream.status = 200
      /\ FirstOver(upstream.stream.cuts, 1, 0) # 0 ) =>
        /\ outcome.kind = "return"
        /\ Result = Obj([success |-> Bool(FALSE),
                         error |-> Str("Audio response too large (>10MB)")])
        /\ ~HasKey(Result, "audio_data_base64")
        /\ consumed = FirstOver(upstream.stream.cuts, 1, 0)

\* The limit was crossed by a later chunk of a stream that had more to give.
C4_Witness ==
    /\ Answered("generate_voice")
    /\ upstream.kind = "response" /\ upstream.status = 200
    /\ FirstOver(upstream.stream.cuts, 1, 0) >= 2
    /\ FirstOver(upstream.stream.cuts, 1, 0) < Len(upstream.stream.cuts)
    /\ consumed = FirstOver(upstream.stream.cuts, 1, 0)
    /\ Result.o.success = Bool(FALSE)

-----------------------------------------------------------------------------
(* C5 *)

\* C5: in generate_voice, a 200 response whose body of N < 10 MiB bytes is
\* delivered whole, in chunks cut anywhere (empty chunks too), and encoded
\* without a local fault, gives success=true with audio_data_base64 decoding
\* to exactly the body and size_bytes = N; the other fields echo the
\* arguments, so the result is the same for every chunking.
C5_RoundTrip ==
    ( /\ Answered("generate_voice")
      /\ upstream.kind = "response" /\ upstream.status = 200
      /\ upstream.stream.err = NoError
      /\ fault = NoFault
      /\ BLen(upstream.stream.body) < 10485760 ) =>
        /\ outcome.kind = "return"
        /\ DOMAIN Result.o = {"success", "audio_data_base64", "content_type",
                              "sample_rate", "precision", "size_bytes"}
        /\ Result.o.success = Bool(TRUE)
        /\ B64Decode(Result.o.audio_data_base64.b64) = upstream.stream.body
        /\ Result.o.size_bytes = Num(BLen(upstream.stream.body))
        /\ Result.o.content_type = Str("audio/wav")
        /\ Result.o.sample_rate = Num(call.args.sample_rate)
        /\ Result.o.precision = Str(call.args.precision)

\* A body of differing bytes arrived in several chunks, one of them empty.
C5_Witness ==
    /\ Answered("generate_voice")
    /\ upstream.kind = "response" /\ upstream.status = 200
    /\ upstream.stream.err = NoError
    /\ Len(upstream.stream.body) >= 2
    /\ Len(upstream.stream.cuts) >= 3
    /\ \E i \in 1..Len(upstream.stream.cuts) : upstream.stream.cuts[i] = 0
    /\ \E i \in 1..Len(upstream.stream.cuts) : upstream.stream.cuts[i] = 1
    /\ Result.o.success = Bool(TRUE)
    /\ B64Decode(Result.o.audio_data_base64.b64) = upstream.stream.body

-----------------------------------------------------------------------------
(* C6 *)

\* C6: generate_voice called with no credential override while no process
\* default is available returns {success: false, error: "No API token
\* provided"} and issues no HTTP request; called with a (non-empty) override
\* it sends its one request with the override as bearer token, and without
\* one with the process default.  The import refuses to start a process that
\* has no default, so the first case is also put to generate_voice directly,
\* as a function of the key it reads: with an empty key and no override it
\* returns the error whatever the HTTP client would have done, and sends nothing.
C6_Credential ==
    /\ \A args \in VoiceArgs, up \in {NoUpstream} \cup { u \in StreamUpstreams : u.kind = "raise" } :
          ~Truthy(args.api_token) =>
              generate_voice(args, "", up, NoFault) =
                  [out |-> Return(Obj([success |-> Bool(FALSE),
                                       error |-> Str("No API token provided")])),
                   sent |-> <<>>, consumed |-> 0]
    /\ Answered("generate_voice") =>
        /\ ( ~Truthy(call.args.api_token) /\ RESEMBLE_API_KEY = "" ) =>
              /\ Result = Obj([success |-> Bool(FALSE),
                               error |-> Str("No API token provided")])
              /\ sent = <<>>
        /\ Truthy(call.args.api_token) =>
              /\ Len(sent) = 1
              /\ sent[1].headers.Authorization = "Bearer " \o call.args.api_token.s
        /\ ( ~Truthy(call.args.api_token) /\ RESEMBLE_API_KEY # "" ) =>
              /\ Len(sent) = 1
              /\ sent[1].headers.Authorization = "Bearer " \o RESEMBLE_API_KEY

\* A request went out with an override that is not the process default.
C6_Witness ==
    /\ Answered("generate_voice")
    /\ call.args.api_token = Str("override-token")
    /\ RESEMBLE_API_KEY = "env-key"
    /\ Len(sent) = 1
    /\ sent[1].headers.Authorization = "Bearer override-token"

-----------------------------------------------------------------------------
(* C7 *)

\* The outbound request failed in the transport: no response was received.
TransportFailed == Returned /\ upstream.kind = "raise" /\ upstream.exc \in TransportErrors

\* C7, as stated: for every operation a transport failure gives success=false
\* with the error "API request failed: <details>".
C7_TransportMessageAll ==
    TransportFailed =>
        Result = Obj([success |-> Bool(FALSE),
                      error |-> Str("API request failed: " \o upstream.exc.msg)])

\* C7, amended: a transport failure gives {success: false, error: "API
\* request failed: <details>"} for generate_voice and list_available_voices,
\* and {success: false, error: "Request failed: <details>"} for list_projects
\* and create_project.
C7_TransportMessagePerOp ==
    TransportFailed =>
        /\ outcome.kind = "return"
        /\ call.op \in {"generate_voice", "list_available_voices"} =>
              Result = Obj([success |-> Bool(FALSE),
                            error |-> Str("API request failed: " \o upstream.exc.msg)])
        /\ call.op \in {"list_projects", "create_project"} =>
              Result = Obj([success |-> Bool(FALSE),
                            error |-> Str("Request failed: " \o upstream.exc.msg)])

\* list_projects met a timeout.
C7_Witness ==
    /\ TransportFailed
    /\ call.op = "list_projects"
    /\ upstream.exc.cls = "Timeout"
    /\ Result.o.error = Str("Request failed: Read timed out.")

-----------------------------------------------------------------------------
(* C8 *)

\* C8: for list_available_voices, list_projects and create_project, a 2xx
\* response whose body does not parse as JSON gives exactly {success: false,
\* error: "Failed to parse API response"}: the parse-failure branch goes
\* before the transport-failure and catch-all branches.
C8_ParseFailure ==
    ( /\ Responded
      /\ call.op \in {"list_available_voices", "list_projects", "create_project"}
      /\ upstream.status >= 200 /\ upstream.status < 300
      /\ ParseJSON(upstream.text) = NotJSON ) =>
        Result = Obj([success |-> Bool(FALSE),
                      error |-> Str("Failed to parse API response")])

\* C8 for list_available_voices alone, the one operation with a
\* parse-failure branch.
C8_ParseFailureVoices ==
    ( /\ Responded
      /\ call.op = "list_available_voices"
      /\ upstream.status >= 200 /\ upstream.status < 300
      /\ ParseJSON(upstream.text) = NotJSON ) =>
        Result = Obj([success |-> Bool(FALSE),
                      error |-> Str("Failed to parse API response")])

-----------------------------------------------------------------------------
(* C9 *)

\* The body's `item`, or an empty object when the body is an object without one.
ItemOf(body) == IF "item" \in DOMAIN body.o THEN body.o.item ELSE Obj(<<>>)

\* C9, as stated: create_project returns {success: true, project: <item or
\* {}>} exactly when the upstream status is 200 or 201, and {success: false,
\* error: "API returned status code C", response: <raw body text>} for every
\* other status C.
C9_CreatedByStatus ==
    ( Responded /\ call.op = "create_project" ) =>
        IF upstream.status \in {200, 201}
        THEN /\ HasKey(Result, "success") /\ Result.o.success = Bool(TRUE)
             /\ DOMAIN Result.o = {"success", "project"}
             /\ IsObj(ParseJSON(upstream.text)) =>
                   Result.o.project = ItemOf(ParseJSON(upstream.text))
        ELSE Result = Obj([success |-> Bool(FALSE),
                           error |-> Str("API returned status code "
                                         \o ToString(upstream.status)),
                           response |-> Str(upstream.text)])

\* C9, amended: create_project returns {success: true, project: <item or {}>}
\* exactly when the upstream status is 200 or 201 and the body parses as a
\* JSON object; for a 200 or 201 whose body does not, it returns {success:
\* false, error: "Request failed: <details>"}; for every other status C it
\* returns {success: false, error: "API returned status code C", response:
\* <raw body text>}.
C9_CreatedByStatusAndBody ==
    ( Responded /\ call.op = "create_project" ) =>
        /\ outcome.kind = "return"
        /\ ( upstream.status \in {200, 201} /\ IsObj(ParseJSON(upstream.text)) ) =>
              Result = Obj([success |-> Bool(TRUE),
                            project |-> ItemOf(ParseJSON(upstream.text))])
        /\ ( upstream.status \in {200, 201} /\ ~IsObj(ParseJSON(upstream.text)) ) =>
              /\ IsErrorDict(Result)
              /\ DOMAIN Result.o = {"success", "error"}
              /\ Result.o.error.s \in
                    { "Request failed: Expecting value: line 1 column 1 (char 0)",
                      "Request failed: 'list' object has no attribute 'get'",
                      "Request failed: 'NoneType' object has no attribute 'get'" }
        /\ upstream.status \notin {200, 201} =>
              Result = Obj([success |-> Bool(FALSE),
                            error |-> Str("API returned status code "
                                          \o ToString(upstream.status)),
                            response |-> Str(upstream.text)])

\* create_project got a 201 with an item.
C9_Witness ==
    /\ Answered("create_project")
    /\ upstream.kind = "response" /\ upstream.status = 201
    /\ HasKey(ParseJSON(upstream.text), "item")
    /\ Result = Obj([success |-> Bool(TRUE), project |-> Obj([uuid |-> Str("x")])])

-----------------------------------------------------------------------------
(* C10 *)

\* The value of key k of the body, None when the body has none.
Copied(body, k) == IF k \in DOMAIN body.o THEN body.o[k] ELSE Null

\* C10: when list_projects gets a 200 with a JSON body whose `success` is
\* true, the result is exactly {success: true, page, num_pages, page_size,
\* projects}: page, num_pages and page_size copied from the body, projects
\* the body's `items` (an empty array when it has none), and no other key of
\* the body.
C10_Reshaped ==
    ( /\ Responded
      /\ call.op = "list_projects"
      /\ upstream.status = 200
      /\ HasKey(ParseJSON(upstream.text), "success")
      /\ ParseJSON(upstream.text).o.success = Bool(TRUE) ) =>
        /\ outcome.kind = "return"
        /\ DOMAIN Result.o = {"success", "page", "num_pages", "page_size", "projects"}
        /\ Result.o.success = Bool(TRUE)
        /\ Result.o.page = Copied(ParseJSON(upstream.text), "page")
        /\ Result.o.num_pages = Copied(ParseJSON(upstream.text), "num_pages")
        /\ Result.o.page_size = Copied(ParseJSON(upstream.text), "page_size")
        /\ Result.o.projects =
              ( IF "items" \in DOMAIN ParseJSON(upstream.text).o
                THEN ParseJSON(upstream.text).o.items
                ELSE Arr(<<>>) )

\* list_projects reshaped a page that has items.
C10_Witness ==
    /\ Answered("list_projects")
    /\ upstream.kind = "response" /\ upstream.status = 200
    /\ HasKey(ParseJSON(upstream.text), "items")
    /\ ParseJSON(upstream.text).o.success = Bool(TRUE)
    /\ Result.o.projects = Arr(<<Obj([uuid |-> Str("p1")])>>)
    /\ Result.o.page = Num(2)

====
